---- MODULE Spec2Model ----
(***************************************************************************)
(* barcode-pro, src/script.js: the click handlers of the barcode form.     *)
(*                                                                         *)
(* Strings are sequences of one-character strings, so that split, trim,    *)
(* padStart, parseInt and Number are computed character by character.      *)
(* Numbers are fixed-point with one fractional digit (the value times      *)
(* ten), which is exact for every text the model types into a field; NaN   *)
(* is the record field nan.  Floating-point rounding is not modelled.      *)
(***************************************************************************)
EXTENDS Integers, Sequences, FiniteSets, TLC

(***************************************************************************)
(* Bounds of the model.                                                    *)
(***************************************************************************)
\* Iterations a generation loop is followed before it is reported as not
\* returning.  Every terminating loop of the model is shorter.
MaxIter == 30
\* handleProcessText is followed only while the manual-entry text is at most
\* this long (the text grows with every successful call).
MaxManualLen == 6

(***************************************************************************)
(* Characters and strings                                                  *)
(***************************************************************************)
DigitChars == <<"0", "1", "2", "3", "4", "5", "6", "7", "8", "9">>

IsDigit(c) == \E k \in 1..10 : DigitChars[k] = c

DigitVal(c) == (CHOOSE k \in 1..10 : DigitChars[k] = c) - 1

\* String.prototype.trim strips white space and line terminators.
IsSpace(c) == c \in {" ", "\n", "\t", "\r"}

RECURSIVE TrimStart(_)
TrimStart(s) ==
    IF s = <<>> THEN <<>>
    ELSE IF IsSpace(Head(s)) THEN TrimStart(Tail(s)) ELSE s

RECURSIVE TrimEnd(_)
TrimEnd(s) ==
    IF s = <<>> THEN <<>>
    ELSE IF IsSpace(s[Len(s)]) THEN TrimEnd(SubSeq(s, 1, Len(s) - 1)) ELSE s

Trim(s) == TrimEnd(TrimStart(s))

\* s.split(sep) for a one-character separator: always at least one part.
RECURSIVE SplitFrom(_, _, _, _)
SplitFrom(s, sep, k, cur) ==
    IF k > Len(s) THEN <<cur>>
    ELSE IF s[k] = sep THEN <<cur>> \o SplitFrom(s, sep, k + 1, <<>>)
    ELSE SplitFrom(s, sep, k + 1, Append(cur, s[k]))

Split(s, sep) == SplitFrom(s, sep, 1, <<>>)

\* parts.join(sep)
RECURSIVE Join(_, _)
Join(parts, sep) ==
    IF parts = <<>> THEN <<>>
    ELSE IF Len(parts) = 1 THEN parts[1]
    ELSE parts[1] \o <<sep>> \o Join(Tail(parts), sep)

\* The longest prefix of decimal digits.
RECURSIVE DigitPrefix(_)
DigitPrefix(s) ==
    IF s = <<>> \/ ~IsDigit(Head(s)) THEN <<>>
    ELSE <<Head(s)>> \o DigitPrefix(Tail(s))

RECURSIVE DigitsValue(_, _)
DigitsValue(s, acc) ==
    IF s = <<>> THEN acc ELSE DigitsValue(Tail(s), 10 * acc + DigitVal(Head(s)))

\* The decimal form of a natural number.
RECURSIVE NatToStr(_)
NatToStr(n) ==
    IF n < 10 THEN <<DigitChars[n + 1]>>
    ELSE NatToStr(n \div 10) \o <<DigitChars[(n % 10) + 1]>>

(***************************************************************************)
(* Numbers: [nan, v] with v the value times ten.                           *)
(***************************************************************************)
NaN == [nan |-> TRUE, v |-> 0]

Num(v10) == [nan |-> FALSE, v |-> v10]

IsNaN(x) == x.nan

\* parseInt(s, 10): leading white space, an optional sign, then the longest
\* run of digits; whatever follows is ignored; no digit at all gives NaN.
ParseInt(s) ==
    LET t    == TrimStart(s)
        neg  == t # <<>> /\ Head(t) = "-"
        body == IF t # <<>> /\ Head(t) \in {"-", "+"} THEN Tail(t) ELSE t
        ds   == DigitPrefix(body)
    IN  IF ds = <<>> THEN NaN
        ELSE Num(10 * (IF neg THEN -DigitsValue(ds, 0) ELSE DigitsValue(ds, 0)))

\* The unsigned decimal literal at the head of body, as [ok, v, rest]:
\* digits, optionally followed by "." and digits, or "." and digits.
DecimalPrefix(body) ==
    LET ip    == DigitPrefix(body)
        r1    == SubSeq(body, Len(ip) + 1, Len(body))
        dot   == r1 # <<>> /\ Head(r1) = "."
        fp    == IF dot THEN DigitPrefix(Tail(r1)) ELSE <<>>
        r2    == IF dot THEN SubSeq(r1, Len(fp) + 2, Len(r1)) ELSE r1
        tenth == IF fp = <<>> THEN 0 ELSE DigitVal(fp[1])
    IN  IF ip = <<>> /\ fp = <<>>
        THEN [ok |-> FALSE, v |-> 0, rest |-> body]
        ELSE [ok   |-> Len(fp) <= 1,
              v    |-> 10 * DigitsValue(ip, 0) + tenth,
              rest |-> r2]

\* Number(s): the trimmed text must be a whole numeric literal; the empty
\* text is 0.  (Exponents, hex forms and Infinity are outside the alphabet
\* of the model.)
Number(s) ==
    LET t    == Trim(s)
        neg  == t # <<>> /\ Head(t) = "-"
        body == IF t # <<>> /\ Head(t) \in {"-", "+"} THEN Tail(t) ELSE t
        d    == DecimalPrefix(body)
    IN  IF t = <<>> THEN Num(0)
        ELSE IF ~d.ok \/ d.rest # <<>> THEN NaN
        ELSE Num(IF neg THEN -d.v ELSE d.v)

\* parseFloat(s): like parseInt, with an optional fraction.
ParseFloat(s) ==
    LET t    == TrimStart(s)
        neg  == t # <<>> /\ Head(t) = "-"
        body == IF t # <<>> /\ Head(t) \in {"-", "+"} THEN Tail(t) ELSE t
        d    == DecimalPrefix(body)
    IN  IF ~d.ok THEN NaN ELSE Num(IF neg THEN -d.v ELSE d.v)

\* String(x) of a number.
NumToStr(x) ==
    LET a == IF x.v < 0 THEN -x.v ELSE x.v
        s == IF a % 10 = 0 THEN NatToStr(a \div 10)
             ELSE NatToStr(a \div 10) \o <<".", DigitChars[(a % 10) + 1]>>
    IN  IF x.nan THEN <<"N", "a", "N">>
        ELSE IF x.v < 0 THEN <<"-">> \o s ELSE s

\* numberPart.padStart(width, '0')
RECURSIVE PadStart(_, _)
PadStart(s, width) ==
    IF Len(s) >= width THEN s ELSE PadStart(<<"0">> \o s, width)

\* s.toLowerCase() over the ASCII letters.
UpperChars ==
    <<"A", "B", "C", "D", "E", "F", "G", "H", "I", "J", "K", "L", "M",
      "N", "O", "P", "Q", "R", "S", "T", "U", "V", "W", "X", "Y", "Z">>

LowerChars ==
    <<"a", "b", "c", "d", "e", "f", "g", "h", "i", "j", "k", "l", "m",
      "n", "o", "p", "q", "r", "s", "t", "u", "v", "w", "x", "y", "z">>

LowerChar(c) ==
    IF \E k \in 1..Len(UpperChars) : UpperChars[k] = c
    THEN LowerChars[CHOOSE k \in 1..Len(UpperChars) : UpperChars[k] = c]
    ELSE c

ToLowerCase(s) == [k \in 1..Len(s) |-> LowerChar(s[k])]

IsAlnum(c) ==
    \/ IsDigit(c)
    \/ \E k \in 1..Len(UpperChars) : c \in {UpperChars[k], LowerChars[k]}

(***************************************************************************)
(* The texts the user types.  The script never writes the fields prefix,   *)
(* startVal, endVal, suffix, increment and the layout fields: a handler    *)
(* reads them when it is entered, so their values are inputs of its        *)
(* action.  manualData and processTextInput are written by the script and  *)
(* are variables.                                                          *)
(***************************************************************************)
\* A character outside the CODE128 character set.
NonAscii == "U+00E9"

Prefixes == {<<"A">>, <<NonAscii>>}

Suffixes == {<<>>, <<"Z">>}

StartVals == {<<"1">>, <<"-", "2">>, <<"x">>}

EndVals == {<<"7">>, <<"0">>}

IncrementVals == {<<>>, <<"3">>, <<"0">>, <<"-", "1">>}

VARIABLES
    manualData,        \* elements.manualData.value
    processTextInput,  \* elements.processTextInput.value
    pc,                \* where the running handler stands; "idle" between events
    handler,           \* the handler that is running or has just ended
    alerts,            \* the alert() messages the handler has raised, in order
    gen,               \* the handler's parsed generation parameters
    codes,             \* the handler's list of codes
    previewCanvas,     \* what handlePreview left in the preview container
    layout,            \* handleStandardPdfExport's parsed layout settings
    i,                 \* handleStandardPdfExport's outer loop index
    j,                 \* handleStandardPdfExport's inner loop index
    doc,               \* the jsPDF document of the running export
    zip,               \* the JSZip archive of the running export
    manualBefore,      \* manualData.value when handleProcessText was entered
    inputBefore,       \* processTextInput.value when it was entered
    params             \* handleProcessText's parsed key: value block

vars == <<manualData, processTextInput, pc, handler, alerts, gen, codes,
          previewCanvas, layout, i, j, doc, zip, manualBefore, inputBefore,
          params>>

\* What a handler other than handleProcessText leaves alone.
textLocals == <<manualBefore, inputBefore, params>>

dom == <<manualData, processTextInput>>

NoGen == [start |-> NaN, end |-> NaN, inc |-> NaN, padding |-> NaN,
          prefix |-> <<>>, suffix |-> <<>>]

EmptyCanvas == [placeholder |-> FALSE, items |-> <<>>]

NoLayout == [pW |-> NaN, pH |-> NaN, bW |-> NaN, bH |-> NaN,
             mX |-> NaN, mY |-> NaN, gH |-> NaN, gV |-> NaN]

\* No document.  pages counts the pages and is the current page (addPage
\* makes the new page current); pending holds the doc.svg calls whose
\* promise has not resolved yet; placed the resolved ones, each with the page
\* it was drawn on; saved is set by doc.save, which writes what is in the
\* document at that moment (savedPlaced, savedTexts, savedPages).
NoDoc == [created |-> FALSE, name |-> "", orientation |-> "", pages |-> 0,
          pending |-> <<>>, placed |-> <<>>, texts |-> <<>>,
          saved |-> FALSE, savedPages |-> 0, savedPlaced |-> <<>>,
          savedTexts |-> <<>>]

\* No archive.  files are the entries in insertion order, skipped the codes
\* the catch block logged, downloaded is set by the click on the link.
NoZip == [created |-> FALSE, files |-> <<>>, skipped |-> <<>>,
          downloaded |-> FALSE]

Init ==
    /\ manualData = <<>>
    /\ processTextInput = <<>>
    /\ pc = "idle"
    /\ handler = "none"
    /\ alerts = <<>>
    /\ gen = NoGen
    /\ codes = <<>>
    /\ previewCanvas = EmptyCanvas
    /\ layout = NoLayout
    /\ i = 0
    /\ j = 0
    /\ doc = NoDoc
    /\ zip = NoZip
    /\ manualBefore = <<>>
    /\ inputBefore = <<>>
    /\ params = <<>>

(***************************************************************************)
(* The barcode renderer (JsBarcode, format CODE128): it throws for a code  *)
(* with a character outside the symbology's character set.                 *)
(***************************************************************************)
JsBarcodeThrows(code) == \E k \in 1..Len(code) : code[k] = NonAscii

(***************************************************************************)
(* generateBarcodeData                                                     *)
(***************************************************************************)
\* parseInt(increment.value, 10) || 1: NaN and 0 are falsy.
EffectiveIncrement(incText) ==
    LET n == ParseInt(incText)
    IN  IF n.nan \/ n.v = 0 THEN Num(10) ELSE n

\* FormLoop with the loop test i < end: the last code is left out.
RECURSIVE FormLoopExclusive(_, _, _, _, _, _)
FormLoopExclusive(cur, end, inc, prefix, suffix, fuel) ==
    IF ~(cur < end) THEN [hung |-> FALSE, codes |-> <<>>]
    ELSE IF fuel = 0 THEN [hung |-> TRUE, codes |-> <<>>]
    ELSE LET rest == FormLoopExclusive(cur + inc, end, inc, prefix, suffix,
                                       fuel - 1)
         IN  [hung  |-> rest.hung,
              codes |-> <<prefix \o NumToStr(Num(cur)) \o suffix>> \o rest.codes]

\* for (let i = start; i <= end; i += inc) codes.push(`${prefix}${i}${suffix}`)
\* as [hung, codes]; hung when the loop is still running after fuel rounds.
RECURSIVE FormLoop(_, _, _, _, _, _)
FormLoop(cur, end, inc, prefix, suffix, fuel) ==
    IF ~(cur <= end) THEN [hung |-> FALSE, codes |-> <<>>]
    ELSE IF fuel = 0 THEN [hung |-> TRUE, codes |-> <<>>]
    ELSE LET rest == FormLoop(cur + inc, end, inc, prefix, suffix, fuel - 1)
         IN  [hung  |-> rest.hung,
              codes |-> <<prefix \o NumToStr(Num(cur)) \o suffix>> \o rest.codes]

\* The result of generateBarcodeData on the field values f:
\* [alerts, hung, codes, gen].
GenerateBarcodeData(f) ==
    LET start == ParseInt(f.startVal)
        end   == ParseInt(f.endVal)
        inc   == EffectiveIncrement(f.increment)
        g     == [start |-> start, end |-> end, inc |-> inc, padding |-> Num(0),
                  prefix |-> f.prefix, suffix |-> f.suffix]
        loop  == FormLoop(start.v, end.v, inc.v, f.prefix, f.suffix, MaxIter)
    IN  IF IsNaN(start) \/ IsNaN(end) \/ IsNaN(inc)
        THEN [alerts |-> <<"InvalidNumbers">>, hung |-> FALSE, codes |-> <<>>,
              gen |-> g]
        ELSE [alerts |-> <<>>, hung |-> loop.hung, codes |-> loop.codes,
              gen |-> g]

GenInputs ==
    [prefix : Prefixes, startVal : StartVals, endVal : EndVals,
     suffix : Suffixes, increment : IncrementVals]

(***************************************************************************)
(* handlePreview                                                           *)
(***************************************************************************)
\* codes.slice(0, 10)
FirstTen(cs) == SubSeq(cs, 1, IF Len(cs) < 10 THEN Len(cs) ELSE 10)

\* One preview item per code: the rendered svg, or the inline error text
\* the catch block puts in its place.
PreviewItems(cs) ==
    [k \in 1..Len(cs) |-> [code |-> cs[k], invalid |-> JsBarcodeThrows(cs[k])]]

HandlePreview ==
    /\ pc = "idle"
    /\ \E f \in GenInputs :
         LET r == GenerateBarcodeData(f)
         IN  /\ handler' = "preview"
             /\ gen' = r.gen
             /\ alerts' = r.alerts
             /\ codes' = r.codes
             /\ IF r.hung
                THEN /\ pc' = "hung"
                     /\ UNCHANGED previewCanvas
                ELSE /\ pc' = "done"
                     /\ previewCanvas' =
                          IF Len(r.codes) = 0
                          THEN [placeholder |-> TRUE, items |-> <<>>]
                          ELSE [placeholder |-> FALSE,
                                items |-> PreviewItems(FirstTen(r.codes))]
    /\ UNCHANGED <<dom, layout, i, j, doc, zip, textLocals>>

(***************************************************************************)
(* The document composer (jsPDF with svg2pdf).  doc.svg is asynchronous: the *)
(* call queues the drawing and returns a promise; the drawing goes to the  *)
(* page that is current when it runs.  doc.addPage, doc.text and doc.save  *)
(* are synchronous.                                                        *)
(***************************************************************************)
NewDoc(name, orientation) ==
    [NoDoc EXCEPT !.created = TRUE, !.name = name,
                  !.orientation = orientation, !.pages = 1]

\* doc.svg(svg, {x, y, width, height}) for the code at index k of the list.
DocSvg(d, k, code, x, y, w, h) ==
    [d EXCEPT !.pending =
        Append(@, [k |-> k, code |-> code, x |-> x, y |-> y,
                   width |-> w, height |-> h, issuedOn |-> d.pages])]

DocAddPage(d) == [d EXCEPT !.pages = @ + 1]

DocText(d, code, x, y) ==
    [d EXCEPT !.texts = Append(@, [code |-> code, x |-> x, y |-> y,
                                   page |-> d.pages])]

DocSave(d) ==
    [d EXCEPT !.saved = TRUE, !.savedPages = d.pages,
              !.savedPlaced = d.placed, !.savedTexts = d.texts]

\* The oldest queued doc.svg drawing runs and its promise resolves.
SvgComplete ==
    /\ doc.pending # <<>>
    /\ doc' = [doc EXCEPT
                 !.pending = Tail(@),
                 !.placed = Append(@, [k |-> doc.pending[1].k,
                                       code |-> doc.pending[1].code,
                                       x |-> doc.pending[1].x,
                                       y |-> doc.pending[1].y,
                                       width |-> doc.pending[1].width,
                                       height |-> doc.pending[1].height,
                                       issuedOn |-> doc.pending[1].issuedOn,
                                       page |-> doc.pages])]
    /\ UNCHANGED <<dom, pc, handler, alerts, gen, codes, previewCanvas,
                   layout, i, j, zip, textLocals>>

(***************************************************************************)
(* handleStandardPdfExport                                                 *)
(***************************************************************************)
LayoutInputs ==
    [pageWidth : {<<"4">>}, pageHeight : {<<"6">>},
     barcodeWidth : {<<"1", "5", "0">>}, barcodeHeight : {<<"5", "0">>},
     moveX : {<<"0", ".", "5">>}, moveY : {<<"0", ".", "5">>},
     gapHorizontal : {<<"9", "0">>},
     gapVertical : {<<"1", "0", "0">>, <<"0">>, <<"-", "2", "0">>, <<"x">>}]

\* x * k for a number x and an integer k.
Times(x, k) == IF x.nan THEN NaN ELSE Num(x.v * k)

PointsPerInch == 72

ParseLayout(f) ==
    [pW |-> Times(ParseFloat(f.pageWidth), PointsPerInch),
     pH |-> Times(ParseFloat(f.pageHeight), PointsPerInch),
     bW |-> ParseFloat(f.barcodeWidth),
     bH |-> ParseFloat(f.barcodeHeight),
     mX |-> Times(ParseFloat(f.moveX), PointsPerInch),
     mY |-> Times(ParseFloat(f.moveY), PointsPerInch),
     gH |-> ParseFloat(f.gapHorizontal),
     gV |-> ParseFloat(f.gapVertical)]

\* [pW, pH, bW, bH, mX, mY, gH, gV].some(isNaN)
LayoutInvalid(lay) ==
    \/ lay.pW.nan \/ lay.pH.nan \/ lay.bW.nan \/ lay.bH.nan
    \/ lay.mX.nan \/ lay.mY.nan \/ lay.gH.nan \/ lay.gV.nan

\* if (codes.length === 0) return alert(...)
StandardNothingToExport(cs) == Len(cs) = 0

\* Codes per page: the step of the outer loop and the width of the slice.
CodesPerPage == 3

\* The text allowance subtracted from the top position, in points.
TextAllowance == 15

\* The distance of a label's text below its barcode, in points.
TextOffset == 10

\* const x = mX + j * gH
ItemX(lay, col) == lay.mX.v + col * lay.gH.v

\* const topY = pH - mY - bH - 15
TopY(lay) == lay.pH.v - lay.mY.v - lay.bH.v - 10 * TextAllowance

\* BottomY with the gap added instead of subtracted.
BottomYAbove(lay) == TopY(lay) + lay.gV.v

\* const bottomY = topY - gV
BottomY(lay) == TopY(lay) - lay.gV.v

\* const rowCodes = codes.slice(i, i + 3): its length.
RowLength(cs, first) ==
    IF Len(cs) - first < CodesPerPage THEN Len(cs) - first ELSE CodesPerPage

\* The inner loop body up to its first await, for the code at column col of
\* the row starting at index first: render it (which may throw and end the
\* handler), then issue the top copy.  The result is [pc, doc].
BeginItem(d, cs, lay, first, col) ==
    LET code == cs[first + col + 1]
    IN  IF JsBarcodeThrows(code)
        THEN [pc |-> "threw", doc |-> d]
        ELSE [pc  |-> "awaitTop",
              doc |-> DocSvg(d, first + col, code, ItemX(lay, col), TopY(lay),
                             lay.bW.v, lay.bH.v)]

\* for (let i = 0; i < codes.length; i += 3) from its start up to the first
\* await, or up to doc.save when the loop has nothing to run over.
EnterLoop(d, cs, lay) ==
    IF 0 < Len(cs) THEN BeginItem(d, cs, lay, 0, 0)
    ELSE [pc |-> "done", doc |-> DocSave(d)]

HandleStandardPdfExport ==
    /\ pc = "idle"
    /\ \E f \in GenInputs, g \in LayoutInputs :
         LET r     == GenerateBarcodeData(f)
             lay   == ParseLayout(g)
             fresh == NewDoc("barcodes-standard",
                             IF lay.pW.v > lay.pH.v THEN "landscape"
                             ELSE "portrait")
             first == EnterLoop(fresh, r.codes, lay)
         IN  /\ handler' = "standard"
             /\ gen' = r.gen
             /\ codes' = r.codes
             /\ i' = 0
             /\ j' = 0
             /\ IF r.hung
                THEN /\ pc' = "hung"
                     /\ alerts' = r.alerts
                     /\ UNCHANGED <<layout, doc>>
                ELSE IF StandardNothingToExport(r.codes)
                THEN /\ pc' = "done"
                     /\ alerts' = Append(r.alerts, "NoBarcodesToExport")
                     /\ UNCHANGED <<layout, doc>>
                ELSE IF LayoutInvalid(lay)
                THEN /\ pc' = "done"
                     /\ alerts' = Append(r.alerts, "InvalidLayout")
                     /\ layout' = lay
                     /\ UNCHANGED doc
                ELSE /\ pc' = first.pc
                     /\ alerts' = r.alerts
                     /\ layout' = lay
                     /\ doc' = first.doc
    /\ UNCHANGED <<dom, previewCanvas, zip, textLocals>>

\* await doc.svg(svg, {x, y: topY, ...}) has resolved: issue the bottom copy.
StandardAfterTop ==
    /\ handler = "standard"
    /\ pc = "awaitTop"
    /\ doc.pending = <<>>
    /\ pc' = "awaitBottom"
    /\ doc' = DocSvg(doc, i + j, codes[i + j + 1], ItemX(layout, j),
                     BottomY(layout), layout.bW.v, layout.bH.v)
    /\ UNCHANGED <<dom, handler, alerts, gen, codes, previewCanvas, layout,
                   i, j, zip, textLocals>>

\* await doc.svg(svg, {x, y: bottomY, ...}) has resolved: write the two
\* texts, then go on with the next code, the next page, or doc.save.
StandardAfterBottom ==
    /\ handler = "standard"
    /\ pc = "awaitBottom"
    /\ doc.pending = <<>>
    /\ LET code   == codes[i + j + 1]
           textX  == ItemX(layout, j) + layout.bW.v \div 2
           withT  == DocText(
                       DocText(doc, code, textX,
                               TopY(layout) + layout.bH.v + 10 * TextOffset),
                       code, textX,
                       BottomY(layout) + layout.bH.v + 10 * TextOffset)
           sameRow == BeginItem(withT, codes, layout, i, j + 1)
           nextRow == BeginItem(DocAddPage(withT), codes, layout,
                                i + CodesPerPage, 0)
       IN  IF j + 1 < RowLength(codes, i)
           THEN /\ j' = j + 1
                /\ pc' = sameRow.pc
                /\ doc' = sameRow.doc
                /\ UNCHANGED i
           ELSE IF i + CodesPerPage < Len(codes)
           THEN /\ i' = i + CodesPerPage
                /\ j' = 0
                /\ pc' = nextRow.pc
                /\ doc' = nextRow.doc
           ELSE /\ i' = i + CodesPerPage
                /\ j' = j + 1
                /\ pc' = "done"
                /\ doc' = DocSave(withT)
    /\ UNCHANGED <<dom, handler, alerts, gen, codes, previewCanvas, layout,
                   zip, textLocals>>

(***************************************************************************)
(* getCodesFromManualEntry                                                 *)
(***************************************************************************)
\* .map(s => s.trim()).filter(Boolean)
RECURSIVE TrimmedNonBlank(_)
TrimmedNonBlank(lines) ==
    IF lines = <<>> THEN <<>>
    ELSE IF Trim(Head(lines)) = <<>> THEN TrimmedNonBlank(Tail(lines))
    ELSE <<Trim(Head(lines))>> \o TrimmedNonBlank(Tail(lines))

GetCodesFromManualEntry(text) == TrimmedNonBlank(Split(text, "\n"))

\* The user replaces the content of the manual-entry field.
ManualTexts ==
    {<<>>, <<" ", "\n">>, <<" ", "x", " ", "\n", "\n", "y">>}

EditManualData ==
    /\ pc = "idle"
    /\ \E text \in ManualTexts : manualData' = text
    /\ UNCHANGED <<processTextInput, pc, handler, alerts, gen, codes,
                   previewCanvas, layout, i, j, doc, zip, textLocals>>

(***************************************************************************)
(* handleUnitedPdfExport                                                   *)
(***************************************************************************)
\* UnitedNothingToExport without the test: the handler goes on.
UnitedNeverAborts(cs) == FALSE

\* if (codes.length === 0) return alert(...)
UnitedNothingToExport(cs) == Len(cs) = 0

barcodesPerPage == 20

GridColumns == 4

\* Math.ceil(codes.length / barcodesPerPage)
NumPages(cs) == (Len(cs) + barcodesPerPage - 1) \div barcodesPerPage

\* SlotRow dividing by the number of rows instead of the number of columns.
SlotRowByRows(idx) == idx \div 5

\* const row = Math.floor(i / 4); const col = i % 4
SlotRow(idx) == idx \div GridColumns

SlotCol(idx) == idx % GridColumns

\* codes.slice(p * barcodesPerPage, (p + 1) * barcodesPerPage)
PageCodes(cs, p) ==
    SubSeq(cs, p * barcodesPerPage + 1,
           IF (p + 1) * barcodesPerPage < Len(cs)
           THEN (p + 1) * barcodesPerPage ELSE Len(cs))

\* pageCodes.forEach((code, i) => ...) from index idx on, as [threw, doc]:
\* render the code (which may throw out of the handler), then doc.svg at its
\* slot, not awaited.  The position passed to doc.svg is that of the slot's
\* cell on the page jsPDF reports; the model passes the slot itself (x the
\* column, y the row, the size one cell).
RECURSIVE UnitedItems(_, _, _, _)
UnitedItems(d, pageCodes, idx, p) ==
    IF idx >= Len(pageCodes) THEN [threw |-> FALSE, doc |-> d]
    ELSE IF JsBarcodeThrows(pageCodes[idx + 1]) THEN [threw |-> TRUE, doc |-> d]
    ELSE UnitedItems(
           DocSvg(d, p * barcodesPerPage + idx, pageCodes[idx + 1],
                  SlotCol(idx), SlotRow(idx), 1, 1),
           pageCodes, idx + 1, p)

\* for (let p = 0; p < numPages; p++) { if (p > 0) doc.addPage(); ... }
RECURSIVE UnitedPages(_, _, _)
UnitedPages(d, cs, p) ==
    IF p >= NumPages(cs) THEN [threw |-> FALSE, doc |-> d]
    ELSE LET r == UnitedItems(IF p > 0 THEN DocAddPage(d) ELSE d,
                              PageCodes(cs, p), 0, p)
         IN  IF r.threw THEN r ELSE UnitedPages(r.doc, cs, p + 1)

HandleUnitedPdfExport ==
    /\ pc = "idle"
    /\ LET cs == GetCodesFromManualEntry(manualData)
           r  == UnitedPages(NewDoc("barcodes-manual", "portrait"), cs, 0)
       IN  /\ handler' = "united"
           /\ codes' = cs
           /\ IF UnitedNothingToExport(cs)
              THEN /\ pc' = "done"
                   /\ alerts' = <<"EnterDataForPdf">>
                   /\ UNCHANGED doc
              ELSE /\ alerts' = <<>>
                   /\ pc' = IF r.threw THEN "threw" ELSE "done"
                   /\ doc' = IF r.threw THEN r.doc ELSE DocSave(r.doc)
    /\ UNCHANGED <<dom, gen, previewCanvas, layout, i, j, zip, textLocals>>

(***************************************************************************)
(* handleSvgZipExport                                                      *)
(***************************************************************************)
\* if (codes.length === 0) return alert(...)
ZipNothingToExport(cs) == Len(cs) = 0

\* code.replace(/[^a-z0-9]/gi, '_').toLowerCase()
SafeFilename(code) ==
    [k \in 1..Len(code) |->
        IF IsAlnum(code[k]) THEN LowerChar(code[k]) ELSE "_"]

\* zip.file(name, content): an entry of the same name is replaced.
ZipFile(files, name, code) ==
    IF \E k \in 1..Len(files) : files[k].name = name
    THEN [k \in 1..Len(files) |->
             IF files[k].name = name THEN [name |-> name, code |-> code]
             ELSE files[k]]
    ELSE Append(files, [name |-> name, code |-> code])

\* codes.forEach(code => { try { ... zip.file(...) } catch { warn } })
RECURSIVE ZipItems(_, _)
ZipItems(z, cs) ==
    IF cs = <<>> THEN z
    ELSE IF JsBarcodeThrows(Head(cs))
    THEN ZipItems([z EXCEPT !.skipped = Append(@, Head(cs))], Tail(cs))
    ELSE ZipItems(
           [z EXCEPT !.files =
               ZipFile(@, SafeFilename(Head(cs)) \o <<".", "s", "v", "g">>,
                       Head(cs))],
           Tail(cs))

HandleSvgZipExport ==
    /\ pc = "idle"
    /\ LET cs == GetCodesFromManualEntry(manualData)
       IN  /\ handler' = "zip"
           /\ codes' = cs
           /\ IF ZipNothingToExport(cs)
              THEN /\ pc' = "done"
                   /\ alerts' = <<"EnterDataForSvg">>
                   /\ UNCHANGED zip
              ELSE /\ pc' = "awaitZip"
                   /\ alerts' = <<>>
                   /\ zip' = ZipItems([NoZip EXCEPT !.created = TRUE], cs)
    /\ UNCHANGED <<dom, gen, previewCanvas, layout, i, j, doc, textLocals>>

\* await zip.generateAsync(...) has resolved: the link is clicked.
ZipGenerated ==
    /\ pc = "awaitZip"
    /\ pc' = "done"
    /\ zip' = [zip EXCEPT !.downloaded = TRUE]
    /\ UNCHANGED <<dom, handler, alerts, gen, codes, previewCanvas, layout,
                   i, j, doc, textLocals>>

\* await zip.generateAsync(...) has rejected: the catch block.
ZipFailed ==
    /\ pc = "awaitZip"
    /\ pc' = "done"
    /\ alerts' = Append(alerts, "ZipFailed")
    /\ UNCHANGED <<dom, handler, gen, codes, previewCanvas, layout, i, j,
                   doc, zip, textLocals>>

(***************************************************************************)
(* handleProcessText                                                       *)
(***************************************************************************)
\* The parameter blocks the user types.
ParamTexts ==
    {
      \* only white space
      <<" ", "\n">>,
      \* the example of the specification: 01, 02, 03
      <<"r", "a", "n", "g", "e", ":", " ", "1", "-", "3", "\n", "p", "a",
        "d", "d", "i", "n", "g", ":", " ", "2">>,
      \* no range key
      <<"p", "r", "e", "f", "i", "x", ":", " ", "A">>,
      \* an empty range value
      <<"r", "a", "n", "g", "e", ":">>,
      \* an empty left side
      <<"r", "a", "n", "g", "e", ":", " ", "-", "5">>,
      \* an empty right side
      <<"r", "a", "n", "g", "e", ":", " ", "5", "-">>,
      \* a fractional side
      <<"r", "a", "n", "g", "e", ":", " ", "1", ".", "5", "-", "3">>,
      \* three parts
      <<"r", "a", "n", "g", "e", ":", " ", "1", "-", "2", "-", "3">>,
      \* range, increment and padding all bad
      <<"r", "a", "n", "g", "e", ":", " ", "x", "-", "3", "\n", "i", "n",
        "c", "r", "e", "m", "e", "n", "t", ":", " ", "0", "\n", "p", "a",
        "d", "d", "i", "n", "g", ":", " ", "-", "1">>,
      \* start after end, and a zero increment
      <<"r", "a", "n", "g", "e", ":", " ", "3", "-", "1", "\n", "i", "n",
        "c", "r", "e", "m", "e", "n", "t", ":", " ", "0">>,
      \* a zero increment and a negative padding
      <<"r", "a", "n", "g", "e", ":", " ", "1", "-", "3", "\n", "i", "n",
        "c", "r", "e", "m", "e", "n", "t", ":", " ", "0", "\n", "p", "a",
        "d", "d", "i", "n", "g", ":", " ", "-", "1">>,
      \* an increment that is no number
      <<"r", "a", "n", "g", "e", ":", " ", "1", "-", "3", "\n", "i", "n",
        "c", "r", "e", "m", "e", "n", "t", ":", " ", "x">>,
      \* a negative padding
      <<"r", "a", "n", "g", "e", ":", " ", "1", "-", "3", "\n", "p", "a",
        "d", "d", "i", "n", "g", ":", " ", "-", "1">>,
      \* a padding that is no number
      <<"r", "a", "n", "g", "e", ":", " ", "1", "-", "3", "\n", "p", "a",
        "d", "d", "i", "n", "g", ":", " ", "x">>,
      \* 25 codes; the key is trimmed and lowercased
      <<"R", "a", "n", "g", "e", " ", ":", " ", "1", "-", "2", "5">>,
      \* codes the renderer rejects
      <<"p", "r", "e", "f", "i", "x", ":", " ", NonAscii, "\n", "r", "a",
        "n", "g", "e", ":", " ", "1", "-", "2", "\n", "s", "u", "f", "f",
        "i", "x", ":", " ", "Z">>,
      \* A001, A004, A007, A010
      <<"r", "a", "n", "g", "e", ":", " ", "1", "-", "1", "0", "\n", "i",
        "n", "c", "r", "e", "m", "e", "n", "t", ":", " ", "3", "\n", "p",
        "a", "d", "d", "i", "n", "g", ":", " ", "3", "\n", "p", "r", "e",
        "f", "i", "x", ":", " ", "A">>,
      \* a value with a colon in it
      <<"p", "r", "e", "f", "i", "x", ":", " ", "a", ":", "b", "\n", "r",
        "a", "n", "g", "e", ":", " ", "2", "-", "2">>,
      \* a key given twice: the last one wins
      <<"r", "a", "n", "g", "e", ":", " ", "1", "-", "3", "\n", "r", "a",
        "n", "g", "e", ":", " ", "7", "-", "8">>
    }

\* acc[key] = value
Put(acc, key, value) ==
    [x \in DOMAIN acc \cup {key} |-> IF x = key THEN value ELSE acc[x]]

\* inputText.split('\n').reduce((acc, line) => { ... }, {}): a line is split
\* on ':'; with a non-empty key and at least one colon, the trimmed
\* lowercased key maps to the trimmed rest of the line.
RECURSIVE ReduceLines(_, _)
ReduceLines(lines, acc) ==
    IF lines = <<>> THEN acc
    ELSE LET parts      == Split(Head(lines), ":")
             key        == parts[1]
             valueParts == Tail(parts)
         IN  IF key # <<>> /\ Len(valueParts) > 0
             THEN ReduceLines(Tail(lines),
                              Put(acc, ToLowerCase(Trim(key)),
                                  Trim(Join(valueParts, ":"))))
             ELSE ReduceLines(Tail(lines), acc)

ParseParams(inputText) == ReduceLines(Split(inputText, "\n"), <<>>)

\* params.key is truthy: present and not the empty string.
Truthy(ps, key) == key \in DOMAIN ps /\ ps[key] # <<>>

\* params.key || ''
ValueOrEmpty(ps, key) == IF Truthy(ps, key) THEN ps[key] ELSE <<>>

\* params.range ? params.range.split('-').map(Number) : []
ParseRange(ps) ==
    LET key == <<"r", "a", "n", "g", "e">>
    IN  IF Truthy(ps, key)
        THEN LET parts == Split(ps[key], "-")
             IN  [k \in 1..Len(parts) |-> Number(parts[k])]
        ELSE <<>>

\* params.increment ? parseInt(params.increment, 10) : 1
ParseIncrement(ps) ==
    LET key == <<"i", "n", "c", "r", "e", "m", "e", "n", "t">>
    IN  IF Truthy(ps, key) THEN ParseInt(ps[key]) ELSE Num(10)

\* params.padding ? parseInt(params.padding, 10) : 0
ParsePadding(ps) ==
    LET key == <<"p", "a", "d", "d", "i", "n", "g">>
    IN  IF Truthy(ps, key) THEN ParseInt(ps[key]) ELSE Num(0)

\* range.length !== 2 || isNaN(range[0]) || isNaN(range[1])
RangeInvalid(range) ==
    Len(range) # 2 \/ IsNaN(range[1]) \/ IsNaN(range[2])

\* start > end
StartAfterEnd(range) == range[1].v > range[2].v

\* isNaN(increment) || increment < 1
IncrementInvalid(increment) == IsNaN(increment) \/ increment.v < 10

\* isNaN(padding) || padding < 0
PaddingInvalid(padding) == IsNaN(padding) \/ padding.v < 0

\* Rejection with the increment check moved before the start > end check.
RejectionIncrementFirst(inputText, range, increment, padding) ==
    IF inputText = <<>> THEN "EnterParameters"
    ELSE IF RangeInvalid(range) THEN "InvalidRange"
    ELSE IF IncrementInvalid(increment) THEN "IncrementNotPositive"
    ELSE IF StartAfterEnd(range) THEN "StartGreaterThanEnd"
    ELSE IF PaddingInvalid(padding) THEN "PaddingNegative"
    ELSE ""

\* The alert the validations end the handler with, "" when all pass.
Rejection(inputText, range, increment, padding) ==
    IF inputText = <<>> THEN "EnterParameters"
    ELSE IF RangeInvalid(range) THEN "InvalidRange"
    ELSE IF StartAfterEnd(range) THEN "StartGreaterThanEnd"
    ELSE IF IncrementInvalid(increment) THEN "IncrementNotPositive"
    ELSE IF PaddingInvalid(padding) THEN "PaddingNegative"
    ELSE ""

\* let numberPart = String(i);
\* if (padding > 0) numberPart = numberPart.padStart(padding, '0')
NumberPart(cur, padding) ==
    IF padding > 0 THEN PadStart(NumToStr(Num(cur)), padding \div 10)
    ELSE NumToStr(Num(cur))

\* for (let i = start; i <= end; i += increment) generatedCodes.push(...)
\* as [hung, codes]; hung when the loop is still running after fuel rounds.
RECURSIVE TextLoop(_, _, _, _, _, _, _)
TextLoop(cur, end, inc, prefix, suffix, padding, fuel) ==
    IF ~(cur <= end) THEN [hung |-> FALSE, codes |-> <<>>]
    ELSE IF fuel = 0 THEN [hung |-> TRUE, codes |-> <<>>]
    ELSE LET rest == TextLoop(cur + inc, end, inc, prefix, suffix, padding,
                              fuel - 1)
         IN  [hung  |-> rest.hung,
              codes |-> <<prefix \o NumberPart(cur, padding) \o suffix>>
                        \o rest.codes]

\* AppendCodes without the line break between the old and the new content.
AppendCodesNoBreak(existingData, generatedCodes) ==
    existingData \o Join(generatedCodes, "\n")

\* (existingData ? existingData + '\n' : '') + generatedCodes.join('\n')
AppendCodes(existingData, generatedCodes) ==
    (IF existingData # <<>> THEN existingData \o <<"\n">> ELSE <<>>)
    \o Join(generatedCodes, "\n")

\* The value of the parameter field after a successful run.
ClearedInput == <<>>

\* The user has typed text into the parameter field and clicks.
HandleProcessText ==
    /\ pc = "idle"
    /\ Len(manualData) <= MaxManualLen
    /\ \E text \in ParamTexts :
         LET inputText == Trim(text)
             ps        == ParseParams(inputText)
             prefix    == ValueOrEmpty(ps, <<"p", "r", "e", "f", "i", "x">>)
             suffix    == ValueOrEmpty(ps, <<"s", "u", "f", "f", "i", "x">>)
             range     == ParseRange(ps)
             increment == ParseIncrement(ps)
             padding   == ParsePadding(ps)
             reject    == Rejection(inputText, range, increment, padding)
             loop      == TextLoop(range[1].v, range[2].v, increment.v,
                                   prefix, suffix, padding.v, MaxIter)
         IN  /\ handler' = "text"
             /\ manualBefore' = manualData
             /\ inputBefore' = text
             /\ params' = IF inputText = <<>> THEN <<>> ELSE ps
             /\ gen' = IF inputText = <<>> THEN NoGen
                       ELSE [start |-> IF RangeInvalid(range) THEN NaN
                                       ELSE range[1],
                             end |-> IF RangeInvalid(range) THEN NaN
                                     ELSE range[2],
                             inc |-> increment, padding |-> padding,
                             prefix |-> prefix, suffix |-> suffix]
             /\ IF reject # ""
                THEN /\ pc' = "done"
                     /\ alerts' = <<reject>>
                     /\ codes' = <<>>
                     /\ manualData' = manualData
                     /\ processTextInput' = text
                ELSE IF loop.hung
                THEN /\ pc' = "hung"
                     /\ alerts' = <<>>
                     /\ codes' = <<>>
                     /\ manualData' = manualData
                     /\ processTextInput' = text
                ELSE /\ pc' = "done"
                     /\ alerts' = <<>>
                     /\ codes' = loop.codes
                     /\ manualData' = AppendCodes(Trim(manualData), loop.codes)
                     /\ processTextInput' = ClearedInput
    /\ UNCHANGED <<previewCanvas, layout, i, j, doc, zip>>

\* The handler has returned (or thrown) and its job queue is empty: the
\* event loop is idle again, and the next click starts from fresh locals.
\* What the handler put out (alerts, canvas, document, archive) is looked at
\* before this step; a handler whose loop does not end never gets here.
Return ==
    /\ pc \in {"done", "threw"}
    /\ doc.pending = <<>>
    /\ pc' = "idle"
    /\ handler' = "none"
    /\ alerts' = <<>>
    /\ gen' = NoGen
    /\ codes' = <<>>
    /\ previewCanvas' = EmptyCanvas
    /\ layout' = NoLayout
    /\ i' = 0
    /\ j' = 0
    /\ doc' = NoDoc
    /\ zip' = NoZip
    /\ manualBefore' = <<>>
    /\ inputBefore' = <<>>
    /\ params' = <<>>
    /\ UNCHANGED dom

Next ==
    \/ HandlePreview
    \/ HandleStandardPdfExport
    \/ StandardAfterTop
    \/ StandardAfterBottom
    \/ SvgComplete
    \/ EditManualData
    \/ HandleUnitedPdfExport
    \/ HandleSvgZipExport
    \/ ZipGenerated
    \/ ZipFailed
    \/ HandleProcessText
    \/ Return

Spec == Init /\ [][Next]_vars
(***************************************************************************)
(* The claims                                                              *)
(***************************************************************************)
\* A handler has run to its end (returned or thrown) and every queued
\* drawing has run.
Ended == pc \in {"done", "threw"} /\ doc.pending = <<>>

\* dec is the decimal form of the integer n: digits only, after "-" for a
\* negative n, with no leading zero, and of value n.
IsDecimalOf(dec, n) ==
    LET ds == IF n < 0 THEN Tail(dec) ELSE dec
    IN  /\ dec # <<>>
        /\ n < 0 => Head(dec) = "-"
        /\ ds # <<>>
        /\ \A k \in 1..Len(ds) : IsDigit(ds[k])
        /\ Len(ds) > 1 => ds[1] # "0"
        /\ DigitsValue(ds, 0) = (IF n < 0 THEN -n ELSE n)

\* out is dec left-padded with "0" to at least width characters, and dec
\* itself when dec is that long already.
IsPadded(out, dec, width) ==
    /\ Len(out) = (IF Len(dec) >= width THEN Len(dec) ELSE width)
    /\ SubSeq(out, Len(out) - Len(dec) + 1, Len(out)) = dec
    /\ \A k \in 1..(Len(out) - Len(dec)) : out[k] = "0"

\* code is prefix, then the padded decimal form of n, then suffix.
IsCodeOf(code, prefix, suffix, n, width) ==
    LET mid == SubSeq(code, Len(prefix) + 1, Len(code) - Len(suffix))
    IN  /\ Len(code) >= Len(prefix) + Len(suffix)
        /\ SubSeq(code, 1, Len(prefix)) = prefix
        /\ SubSeq(code, Len(code) - Len(suffix) + 1, Len(code)) = suffix
        /\ \E len \in 1..Len(mid) :
             LET dec == SubSeq(mid, Len(mid) - len + 1, Len(mid))
             IN  IsDecimalOf(dec, n) /\ IsPadded(mid, dec, width)

\* The number x is an integer.
IsInteger(x) == ~x.nan /\ x.v % 10 = 0

\* The generation parameters of the running handler are integers with
\* start <= end, increment >= 1 and padding >= 0.
GenerationApplies ==
    /\ handler \in {"preview", "standard", "text"}
    /\ IsInteger(gen.start) /\ IsInteger(gen.end)
    /\ gen.start.v <= gen.end.v
    /\ IsInteger(gen.inc) /\ gen.inc.v >= 10
    /\ IsInteger(gen.padding) /\ gen.padding.v >= 0

\* C1: for integers start <= end and an increment >= 1, both generators
\* (generateBarcodeData and the loop of handleProcessText) return, with
\* exactly floor((end - start) / increment) + 1 codes, the k-th of which is
\* prefix + pad(start + (k - 1) * increment, padding) + suffix; so the
\* numbers rise by increment and the last one is at most end.
C1_GeneratedSequence ==
    GenerationApplies =>
        LET start == gen.start.v \div 10
            end   == gen.end.v \div 10
            inc   == gen.inc.v \div 10
            n     == (end - start) \div inc + 1
        IN  /\ pc # "hung"
            /\ Len(codes) = n
            /\ start + (n - 1) * inc <= end
            /\ \A k \in 1..n :
                 IsCodeOf(codes[k], gen.prefix, gen.suffix,
                          start + (k - 1) * inc, gen.padding.v \div 10)

\* C1 witness: the text variant has generated A001, A004, A007, A010 from
\* range 1-10, increment 3, padding 3, prefix A.
C1_Witness ==
    /\ GenerationApplies
    /\ handler = "text"
    /\ gen.padding.v = 30
    /\ gen.inc.v = 30
    /\ codes = << <<"A", "0", "0", "1">>, <<"A", "0", "0", "4">>,
                  <<"A", "0", "0", "7">>, <<"A", "0", "1", "0">> >>

\* The form variant is reached too: -2Z, 1Z, 4Z, 7Z from start -2, end 7,
\* increment 3, suffix Z.
C1_FormVariantReached ==
    /\ GenerationApplies
    /\ handler = "preview"
    /\ codes = << <<"A", "-", "2", "Z">>, <<"A", "1", "Z">>,
                  <<"A", "4", "Z">>, <<"A", "7", "Z">> >>
\* The checks of handleProcessText that the parameter block it was given
\* fails, by their number in the specification's list.
FailedChecks ==
    {k \in 1..5 :
        \/ k = 1 /\ Trim(inputBefore) = <<>>
        \/ k = 2 /\ (IsNaN(gen.start) \/ IsNaN(gen.end))
        \/ k = 3 /\ ~IsNaN(gen.start) /\ ~IsNaN(gen.end)
                 /\ gen.start.v > gen.end.v
        \/ k = 4 /\ (IsNaN(gen.inc) \/ gen.inc.v < 10)
        \/ k = 5 /\ (IsNaN(gen.padding) \/ gen.padding.v < 0)}

CheckMessages ==
    <<"EnterParameters", "InvalidRange", "StartGreaterThanEnd",
      "IncrementNotPositive", "PaddingNegative">>

\* C2: when the parameter block fails one or more of the five checks of
\* handleProcessText, exactly one alert is raised, that of the first failed
\* check in the order empty input, range, start > end, increment, padding;
\* the manual-entry text and the parameter field are as they were and no code
\* is generated.
C2_ValidationOrder ==
    (handler = "text" /\ pc = "done" /\ FailedChecks # {}) =>
        /\ alerts =
             <<CheckMessages[CHOOSE k \in FailedChecks :
                                \A m \in FailedChecks : k <= m]>>
        /\ manualData = manualBefore
        /\ processTextInput = inputBefore
        /\ codes = <<>>

\* C2 witness: a block that fails the range, the increment and the padding
\* check was rejected, with manual-entry text present, for its range.
C2_Witness ==
    /\ handler = "text" /\ pc = "done"
    /\ FailedChecks = {2, 4, 5}
    /\ alerts = <<"InvalidRange">>
    /\ manualBefore # <<>>
    /\ manualData = manualBefore
    /\ processTextInput = inputBefore

\* t is an integer in decimal digits.
IsIntegerText(t) == t # <<>> /\ \A k \in 1..Len(t) : IsDigit(t[k])

\* The block has a range value made of exactly two integers around a hyphen.
WellFormedRange(ps) ==
    LET key == <<"r", "a", "n", "g", "e">>
    IN  /\ key \in DOMAIN ps
        /\ LET parts == Split(ps[key], "-")
           IN  /\ Len(parts) = 2
               /\ IsIntegerText(Trim(parts[1]))
               /\ IsIntegerText(Trim(parts[2]))

\* C3: a non-empty parameter block whose range is missing or is not exactly
\* two hyphen-separated integers is rejected with the "Invalid range" alert
\* and generates no code; a block with two integers is not rejected for its
\* range.
C3_StrictRange ==
    (handler = "text" /\ pc # "idle" /\ Trim(inputBefore) # <<>>) =>
        IF WellFormedRange(params)
        THEN alerts # <<"InvalidRange">>
        ELSE /\ alerts = <<"InvalidRange">>
             /\ codes = <<>>
             /\ manualData = manualBefore

\* C4: after a successful handleProcessText the codes read from the
\* manual-entry text are those read before the call followed by the
\* generated codes in order, the text does not start with a line break, and
\* the parameter field is empty.
C4_AppendOnSuccess ==
    (handler = "text" /\ pc = "done" /\ alerts = <<>>) =>
        /\ GetCodesFromManualEntry(manualData) =
             GetCodesFromManualEntry(manualBefore) \o codes
        /\ manualData # <<>> /\ Head(manualData) # "\n"
        /\ processTextInput = <<>>

\* C4 witness: 01, 02, 03 (range 1-3, padding 2) were appended to a
\* manual-entry text that held the codes x and y.
C4_Witness ==
    /\ handler = "text" /\ pc = "done" /\ alerts = <<>>
    /\ GetCodesFromManualEntry(manualBefore) = << <<"x">>, <<"y">> >>
    /\ codes = << <<"0", "1">>, <<"0", "2">>, <<"0", "3">> >>
    /\ GetCodesFromManualEntry(manualData) =
         << <<"x">>, <<"y">>, <<"0", "1">>, <<"0", "2">>, <<"0", "3">> >>
    /\ inputBefore # <<>>
\* The codes of the list that the renderer accepts.
Renderable == {k \in 1..Len(codes) : ~JsBarcodeThrows(codes[k])}

\* C5: a code the renderer rejects ends no handler: with a non-empty list
\* and no alert, preview, standard export, combined export and ZIP export
\* all return normally, having handled every code of the list (the first ten
\* in the preview) and having produced the canvas, the saved document or the
\* downloaded archive.
C5_RenderErrorsNonFatal ==
    (Ended /\ codes # <<>> /\ alerts = <<>>
       /\ handler \in {"preview", "standard", "united", "zip"}) =>
        /\ pc = "done"
        /\ handler = "preview" =>
             Len(previewCanvas.items) = Len(FirstTen(codes))
        /\ handler \in {"standard", "united"} =>
             /\ doc.saved
             /\ \A k \in Renderable :
                  \E n \in 1..Len(doc.placed) : doc.placed[n].k = k - 1
        /\ handler = "zip" =>
             /\ zip.downloaded
             /\ \A k \in Renderable :
                  \E n \in 1..Len(zip.files) : zip.files[n].code = codes[k]

\* C6: doc.save runs only when no doc.svg insertion is pending, and the
\* saved output has every code of the list, in list order; doc.addPage runs
\* only when none is pending, so that every insertion is drawn on the page
\* that was current when it was issued.
C6_SaveAfterInsertions ==
    doc.created =>
        /\ doc.saved =>
             /\ doc.pending = <<>>
             /\ \A k \in 1..Len(codes) :
                  \E n \in 1..Len(doc.savedPlaced) :
                     doc.savedPlaced[n].k = k - 1
             /\ \A m, n \in 1..Len(doc.savedPlaced) :
                  m <= n => doc.savedPlaced[m].k <= doc.savedPlaced[n].k
        /\ \A n \in 1..Len(doc.pending) : doc.pending[n].issuedOn = doc.pages
        /\ \A n \in 1..Len(doc.placed) :
             doc.placed[n].page = doc.placed[n].issuedOn

\* C7: an export handler (standard, combined, ZIP) whose code list is empty
\* ends with its blocking alert as the last message, and has created no
\* document and no archive, saved nothing and downloaded nothing.
C7_EmptyListAborts ==
    (handler \in {"standard", "united", "zip"} /\ pc # "hung"
       /\ Len(codes) = 0) =>
        /\ pc = "done"
        /\ alerts # <<>>
        /\ alerts[Len(alerts)] =
             (IF handler = "standard" THEN "NoBarcodesToExport"
              ELSE IF handler = "united" THEN "EnterDataForPdf"
              ELSE "EnterDataForSvg")
        /\ ~doc.created /\ ~doc.saved
        /\ ~zip.created /\ ~zip.downloaded

\* C7 witness: the standard export found start not to be a number, so the
\* generator returned the empty list, and the export stopped with its alert.
C7_Witness ==
    /\ handler = "standard" /\ pc = "done"
    /\ IsNaN(gen.start)
    /\ codes = <<>>
    /\ alerts = <<"InvalidNumbers", "NoBarcodesToExport">>
    /\ ~doc.created

\* The combined export stops on a manual-entry text of blank lines only.
C7_UnitedReached ==
    /\ handler = "united" /\ pc = "done"
    /\ manualData # <<>>
    /\ codes = <<>>
    /\ alerts = <<"EnterDataForPdf">>

\* Every doc.svg call issued so far, in the order of the calls.
Issued == doc.placed \o doc.pending

\* The placements of the standard export: the code at index k goes to page
\* floor(k / 3), at x = leftMargin + (k mod 3) * horizontalGap, first at
\* topY = pageHeight - topMargin - itemHeight - 15, then at
\* bottomY = topY - verticalGap; the saved document has ceil(N / 3) pages and
\* both copies of each of its N codes.  (Lengths are in tenths of a point.)
DuplicatePairPlacement ==
    LET topY    == layout.pH.v - layout.mY.v - layout.bH.v - 150
        bottomY == topY - layout.gV.v
        N       == Len(codes)
    IN  /\ \A n \in 1..Len(Issued) :
             LET q == Issued[n]
                 k == (n - 1) \div 2
             IN  /\ q.k = k
                 /\ q.code = codes[k + 1]
                 /\ q.issuedOn = k \div 3 + 1
                 /\ q.x = layout.mX.v + (k % 3) * layout.gH.v
                 /\ q.y = (IF n % 2 = 1 THEN topY ELSE bottomY)
                 /\ q.width = layout.bW.v /\ q.height = layout.bH.v
        /\ \A n \in 1..Len(doc.placed) :
             doc.placed[n].page = doc.placed[n].issuedOn
        /\ doc.saved =>
             /\ doc.savedPages = (N + 2) \div 3
             /\ doc.savedPlaced = doc.placed
             /\ Len(doc.savedPlaced) = 2 * N

\* C8 as stated: the placements above, with bottomY strictly less than topY.
C8_BottomStrictlyBelowTop ==
    (handler = "standard" /\ doc.created) =>
        /\ DuplicatePairPlacement
        /\ \A n \in 1..Len(Issued) :
             n % 2 = 0 => Issued[n].y < Issued[n - 1].y

\* C8, amended: the placements above, where bottomY = topY - verticalGap is
\* strictly less than topY exactly when the vertical gap is positive (the
\* handler takes any number as the gap).
C8_DuplicatePairLayout ==
    (handler = "standard" /\ doc.created) =>
        /\ DuplicatePairPlacement
        /\ \A n \in 1..Len(Issued) :
             n % 2 = 0 =>
                /\ Issued[n].y = Issued[n - 1].y - layout.gV.v
                /\ (Issued[n].y < Issued[n - 1].y) <=> (layout.gV.v > 0)

\* C8 witness: seven codes were saved on three pages (3, 3, 1) with a
\* positive vertical gap.
C8_Witness ==
    /\ handler = "standard" /\ doc.saved
    /\ Len(codes) = 7
    /\ doc.savedPages = 3
    /\ layout.gV.v > 0
    /\ Cardinality({n \in 1..14 : doc.savedPlaced[n].page = 3}) = 2

\* C9: in the combined export the code at index k is issued for page
\* floor(k / 20), at row floor((k mod 20) / 4) < 5 and column k mod 4 < 4;
\* the codes are issued in list order, no two for the same page, row and
\* column; the saved document has ceil(N / 20) pages and all N codes were
\* issued.
C9_DenseGrid ==
    (handler = "united" /\ doc.created) =>
        /\ \A n \in 1..Len(Issued) :
             LET q == Issued[n]
                 k == n - 1
             IN  /\ q.k = k
                 /\ q.code = codes[k + 1]
                 /\ q.issuedOn = k \div 20 + 1
                 /\ q.y = (k % 20) \div 4 /\ q.y >= 0 /\ q.y < 5
                 /\ q.x = k % 4 /\ q.x >= 0 /\ q.x < 4
        /\ \A m, n \in 1..Len(Issued) :
             (Issued[m].issuedOn = Issued[n].issuedOn
                /\ Issued[m].x = Issued[n].x /\ Issued[m].y = Issued[n].y)
             => m = n
        /\ doc.saved =>
             /\ doc.savedPages = (Len(codes) + 19) \div 20
             /\ Len(Issued) = Len(codes)

\* C9 witness: 25 codes were saved on two pages, the 21st issued for row 0,
\* column 0 of page 2.
C9_Witness ==
    /\ handler = "united" /\ doc.saved
    /\ Len(codes) = 25
    /\ doc.savedPages = 2
    /\ Len(Issued) = 25
    /\ Issued[21].issuedOn = 2 /\ Issued[21].x = 0 /\ Issued[21].y = 0
    /\ Issued[20].issuedOn = 1 /\ Issued[20].x = 3 /\ Issued[20].y = 4

\* C10: with start and end integers, generateBarcodeData returns, whatever
\* the increment field holds; when start <= end, so that the loop has codes
\* to produce, the increment it runs with is at least 1.
C10_GeneratorTerminates ==
    (handler \in {"preview", "standard"} /\ ~IsNaN(gen.start)
       /\ ~IsNaN(gen.end)) =>
        /\ pc # "hung"
        /\ gen.start.v <= gen.end.v => gen.inc.v >= 10
====
